---- MODULE Spec2Model ----
(***************************************************************************)
(* fastify-cache-control: the directive resolution and serialization       *)
(* engine of src/src/plugin.ts and src/src/types.ts.                       *)
(*                                                                         *)
(* Representation of the JavaScript values:                                *)
(*  - a string that the code only copies or compares is a TLA+ string;     *)
(*    a string the code looks into (field names, URLs, patterns, the Vary  *)
(*    header) is the sequence of its characters, Str(s) being the string;  *)
(*  - a CacheControlDirectives object is the record of the fields it       *)
(*    holds: an absent field is absent from the record's DOMAIN;           *)
(*  - private / noCache hold [b |-> boolean] or [names |-> array];         *)
(*  - a duration is a number of seconds in fixed point, Scale units to     *)
(*    the second, so that non-integer durations are values of the model;   *)
(*  - CacheControlDirectives | CachePreset | false | undefined is a        *)
(*    tagged record: Set(d), Preset(name), False, Undefined.               *)
(***************************************************************************)
EXTENDS Integers, Sequences, FiniteSets, TLC

(***************************************************************************)
(* Strings and characters                                                  *)
(***************************************************************************)
RECURSIVE Str(_)
Str(s) == IF s = <<>> THEN "" ELSE Head(s) \o Str(Tail(s))

RECURSIVE JoinStr(_, _)
JoinStr(parts, sep) ==
  IF parts = <<>> THEN ""
  ELSE IF Len(parts) = 1 THEN parts[1]
  ELSE parts[1] \o sep \o JoinStr(Tail(parts), sep)

Lowers ==
  <<"a","b","c","d","e","f","g","h","i","j","k","l","m",
    "n","o","p","q","r","s","t","u","v","w","x","y","z">>

Uppers ==
  <<"A","B","C","D","E","F","G","H","I","J","K","L","M",
    "N","O","P","Q","R","S","T","U","V","W","X","Y","Z">>

toLowerCase(s) ==
  [i \in 1..Len(s) |->
     IF \E k \in 1..Len(Uppers) : Uppers[k] = s[i]
     THEN Lowers[CHOOSE k \in 1..Len(Uppers) : Uppers[k] = s[i]]
     ELSE s[i]]

toUpperCase(s) ==
  [i \in 1..Len(s) |->
     IF \E k \in 1..Len(Lowers) : Lowers[k] = s[i]
     THEN Uppers[CHOOSE k \in 1..Len(Lowers) : Lowers[k] = s[i]]
     ELSE s[i]]

(***************************************************************************)
(* Values                                                                  *)
(***************************************************************************)
Scale == 10

Sec(n) == n * Scale

\* Faulty variant of MathRound: a half is rounded towards -Infinity.
RoundHalfDown(x) == (2 * x + Scale - 1) \div (2 * Scale)

\* Math.round: the nearest integer, a half rounded towards +Infinity.
MathRound(x) == (2 * x + Scale) \div (2 * Scale)

Undefined == [t |-> "undefined"]
False == [t |-> "false"]
Preset(name) == [t |-> "preset", name |-> name]
Set(d) == [t |-> "set", d |-> d]

Flag(b) == [b |-> b]
Names(l) == [names |-> l]

EmptySet == [f \in {} |-> TRUE]

Has(d, f) == f \in DOMAIN d

IsArray(d, f) == Has(d, f) /\ "names" \in DOMAIN d[f]

\* JavaScript truthiness of a boolean field: true, not false or absent.
TruthyFlag(d, f) == Has(d, f) /\ d[f] = TRUE

\* JavaScript truthiness of private / noCache: true, or any array (an empty
\* array is an object, hence truthy).
TruthyScoped(d, f) == Has(d, f) /\ (IsArray(d, f) \/ d[f].b = TRUE)

(***************************************************************************)
(* types.ts                                                                *)
(***************************************************************************)
ErrorCodes ==
  [CONFLICT |-> "CACHE_CONTROL_CONFLICT",
   INVALID_VALUE |-> "CACHE_CONTROL_INVALID_VALUE",
   INVALID_PRESET |-> "CACHE_CONTROL_INVALID_PRESET"]

NoError == [code |-> "none", message |-> ""]

FastifyCacheControlError(message, code) == [code |-> code, message |-> message]

CACHE_PRESETS ==
  [static |-> [public |-> TRUE, maxAge |-> Sec(31536000), immutable |-> TRUE],
   api |-> [private |-> Flag(TRUE), noCache |-> Flag(TRUE)],
   realtime |-> [noStore |-> TRUE],
   page |-> [public |-> TRUE, maxAge |-> Sec(3600), mustRevalidate |-> TRUE],
   private |-> [private |-> Flag(TRUE), maxAge |-> Sec(60), mustRevalidate |-> TRUE]]

\* CACHE_PRESETS is an object literal: its prototype is Object.prototype, and
\* CACHE_PRESETS[value] also finds the members it inherits.
ObjectPrototypeKeys ==
  {"constructor", "__proto__", "toString", "toLocaleString", "valueOf",
   "hasOwnProperty", "isPrototypeOf", "propertyIsEnumerable"}

(***************************************************************************)
(* plugin.ts: constants                                                    *)
(***************************************************************************)
\* Faulty variant of DIRECTIVE_ORDER: the durations come first.
DirectiveOrderDurationsFirst ==
  <<"max-age", "s-maxage", "stale-while-revalidate", "stale-if-error",
    "public", "private", "no-cache", "no-store", "no-transform",
    "must-revalidate", "proxy-revalidate", "must-understand", "immutable">>

DIRECTIVE_ORDER ==
  <<"public", "private", "no-cache", "no-store", "no-transform",
    "must-revalidate", "proxy-revalidate", "must-understand", "immutable",
    "max-age", "s-maxage", "stale-while-revalidate", "stale-if-error">>

DEFAULT_STATUS_CODES == {200, 201, 204, 206, 301, 302, 303, 304, 307, 308}

DEFAULT_METHODS == {"GET", "HEAD"}

(***************************************************************************)
(* resolveDirectives: the thrown error (NoError when it returns) and the   *)
(* returned value.                                                         *)
(***************************************************************************)
\* CACHE_PRESETS[value]: an own preset, an inherited member of
\* Object.prototype (a function or object holding no directive field, read
\* by the rest of the code as a Directive Set without fields), or undefined.
PresetLookup(name) ==
  IF name \in DOMAIN CACHE_PRESETS THEN Set(CACHE_PRESETS[name])
  ELSE IF name \in ObjectPrototypeKeys THEN Set(EmptySet)
  ELSE Undefined

resolveDirectives(value) ==
  IF value.t = "false" THEN [err |-> NoError, value |-> False]
  ELSE IF value.t = "undefined" THEN [err |-> NoError, value |-> Undefined]
  ELSE IF value.t = "preset" THEN
    LET preset == PresetLookup(value.name) IN
    IF preset.t = "undefined"
    THEN [err |-> FastifyCacheControlError("Invalid preset: " \o value.name,
                                           ErrorCodes.INVALID_PRESET),
          value |-> Undefined]
    ELSE [err |-> NoError, value |-> preset]
  ELSE [err |-> NoError, value |-> value]

(***************************************************************************)
(* validateDirectives: the thrown error, NoError when it returns.          *)
(***************************************************************************)
Negative(d, f) == Has(d, f) /\ d[f] < 0

\* Faulty variant of validateDirectives: the durations are checked before the
\* conflict.
validateDurationsFirst(directives) ==
  IF Negative(directives, "maxAge")
  THEN FastifyCacheControlError("maxAge cannot be negative",
                                ErrorCodes.INVALID_VALUE)
  ELSE IF Negative(directives, "sMaxage")
  THEN FastifyCacheControlError("sMaxage cannot be negative",
                                ErrorCodes.INVALID_VALUE)
  ELSE IF Negative(directives, "staleWhileRevalidate")
  THEN FastifyCacheControlError("staleWhileRevalidate cannot be negative",
                                ErrorCodes.INVALID_VALUE)
  ELSE IF Negative(directives, "staleIfError")
  THEN FastifyCacheControlError("staleIfError cannot be negative",
                                ErrorCodes.INVALID_VALUE)
  ELSE IF TruthyFlag(directives, "public") /\ TruthyScoped(directives, "private")
  THEN FastifyCacheControlError(
         "Cannot use both \"public\" and \"private\" directives",
         ErrorCodes.CONFLICT)
  ELSE NoError

validateDirectives(directives) ==
  IF TruthyFlag(directives, "public") /\ TruthyScoped(directives, "private")
  THEN FastifyCacheControlError(
         "Cannot use both \"public\" and \"private\" directives",
         ErrorCodes.CONFLICT)
  ELSE IF Negative(directives, "maxAge")
  THEN FastifyCacheControlError("maxAge cannot be negative",
                                ErrorCodes.INVALID_VALUE)
  ELSE IF Negative(directives, "sMaxage")
  THEN FastifyCacheControlError("sMaxage cannot be negative",
                                ErrorCodes.INVALID_VALUE)
  ELSE IF Negative(directives, "staleWhileRevalidate")
  THEN FastifyCacheControlError("staleWhileRevalidate cannot be negative",
                                ErrorCodes.INVALID_VALUE)
  ELSE IF Negative(directives, "staleIfError")
  THEN FastifyCacheControlError("staleIfError cannot be negative",
                                ErrorCodes.INVALID_VALUE)
  ELSE NoError

(***************************************************************************)
(* serializeDirectives                                                     *)
(***************************************************************************)
Bare == [bare |-> TRUE]
Valued(s) == [value |-> s]

EmptyMap == [k \in {} |-> Bare]

BoolEntry(d, f, token) ==
  IF TruthyFlag(d, f) THEN token :> Bare ELSE EmptyMap

QuotedList(l) == "\"" \o JoinStr([i \in 1..Len(l) |-> Str(l[i])], ", ") \o "\""

ScopedEntry(d, f, token) ==
  IF TruthyScoped(d, f)
  THEN IF IsArray(d, f)
       THEN IF Len(d[f].names) > 0
            THEN token :> Valued(QuotedList(d[f].names))
            ELSE EmptyMap
       ELSE token :> Bare
  ELSE EmptyMap

DurationEntry(d, f, token) ==
  IF Has(d, f) THEN token :> Valued(ToString(MathRound(d[f]))) ELSE EmptyMap

directiveMap(d) ==
  BoolEntry(d, "public", "public")
  @@ ScopedEntry(d, "private", "private")
  @@ ScopedEntry(d, "noCache", "no-cache")
  @@ BoolEntry(d, "noStore", "no-store")
  @@ BoolEntry(d, "noTransform", "no-transform")
  @@ BoolEntry(d, "mustRevalidate", "must-revalidate")
  @@ BoolEntry(d, "proxyRevalidate", "proxy-revalidate")
  @@ BoolEntry(d, "mustUnderstand", "must-understand")
  @@ BoolEntry(d, "immutable", "immutable")
  @@ DurationEntry(d, "maxAge", "max-age")
  @@ DurationEntry(d, "sMaxage", "s-maxage")
  @@ DurationEntry(d, "staleWhileRevalidate", "stale-while-revalidate")
  @@ DurationEntry(d, "staleIfError", "stale-if-error")

\* The loop over DIRECTIVE_ORDER, from its i-th element on.
RECURSIVE SerializeParts(_, _)
SerializeParts(map, i) ==
  IF i > Len(DIRECTIVE_ORDER) THEN <<>>
  ELSE LET directive == DIRECTIVE_ORDER[i] IN
       IF directive \notin DOMAIN map THEN SerializeParts(map, i + 1)
       ELSE IF "bare" \in DOMAIN map[directive]
       THEN <<directive>> \o SerializeParts(map, i + 1)
       ELSE <<directive \o "=" \o map[directive].value>>
            \o SerializeParts(map, i + 1)

\* Faulty variant of serializeDirectives: validateDirectives is not called.
serializeUnvalidated(directives) ==
  [err |-> NoError,
   value |-> JoinStr(SerializeParts(directiveMap(directives), 1), ", ")]

\* The thrown error (NoError when it returns) and the returned string.
serializeDirectives(directives) ==
  LET e == validateDirectives(directives) IN
  IF e # NoError THEN [err |-> e, value |-> ""]
  ELSE [err |-> NoError,
        value |-> JoinStr(SerializeParts(directiveMap(directives), 1), ", ")]

(***************************************************************************)
(* extractVaryFields                                                       *)
(***************************************************************************)
\* [...new Set(fields)]: the first occurrence of each element, in order.
RECURSIVE Dedup(_)
Dedup(fields) ==
  IF fields = <<>> THEN <<>>
  ELSE LET front == Dedup(SubSeq(fields, 1, Len(fields) - 1))
           last == fields[Len(fields)]
       IN IF \E i \in 1..Len(front) : front[i] = last
          THEN front ELSE Append(front, last)

\* s.split(sep) for a one-character separator.
RECURSIVE Split(_, _)
Split(s, sep) ==
  IF \A i \in 1..Len(s) : s[i] # sep THEN <<s>>
  ELSE LET k == CHOOSE i \in 1..Len(s) :
                  s[i] = sep /\ \A j \in 1..(i - 1) : s[j] # sep
       IN <<SubSeq(s, 1, k - 1)>> \o Split(SubSeq(s, k + 1, Len(s)), sep)

RECURSIVE Join(_, _)
Join(parts, sep) ==
  IF parts = <<>> THEN <<>>
  ELSE IF Len(parts) = 1 THEN parts[1]
  ELSE parts[1] \o sep \o Join(Tail(parts), sep)

\* f.trim(), the white space of a header value being the space character.
RECURSIVE Trim(_)
Trim(s) ==
  IF s # <<>> /\ Head(s) = " " THEN Trim(Tail(s))
  ELSE IF s # <<>> /\ s[Len(s)] = " " THEN Trim(SubSeq(s, 1, Len(s) - 1))
  ELSE s

\* part.charAt(0).toUpperCase() + part.slice(1).toLowerCase()
Capitalize(part) ==
  IF part = <<>> THEN <<>>
  ELSE toUpperCase(<<part[1]>>) \o toLowerCase(Tail(part))

NormalizeField(field) ==
  LET normalized == toLowerCase(field) IN
  IF normalized = <<"c","o","o","k","i","e">>
  THEN <<"C","o","o","k","i","e">>
  ELSE IF normalized = <<"a","u","t","h","o","r","i","z","a","t","i","o","n">>
          \/ normalized = <<"a","u","t","h">>
  THEN <<"A","u","t","h","o","r","i","z","a","t","i","o","n">>
  ELSE LET parts == Split(field, "-") IN
       Join([i \in 1..Len(parts) |-> Capitalize(parts[i])], <<"-">>)

extractVaryFields(directives) ==
  LET fields ==
        (IF IsArray(directives, "private")
         THEN directives["private"].names ELSE <<>>)
        \o (IF IsArray(directives, "noCache")
            THEN directives["noCache"].names ELSE <<>>)
      unique == Dedup(fields)
  IN [i \in 1..Len(unique) |-> NormalizeField(unique[i])]

(***************************************************************************)
(* matchesRule, findMatchingRule                                           *)
(*                                                                         *)
(* A rule's match is one of                                                *)
(*   [kind |-> "function", urls |-> the URLs the predicate accepts]        *)
(*   [kind |-> "regexp", source |-> characters, global |-> flag g]         *)
(*   [kind |-> "string", pattern |-> characters]                           *)
(* A RegExp given by the caller is a literal (its source holds no          *)
(* metacharacter). A compiled expression is a sequence of tokens           *)
(*   [atom |-> [lit |-> c] or [dot |-> TRUE], q |-> "1", "*", "+" or "?"]  *)
(***************************************************************************)
RegexSpecials ==
  {".", "+", "?", "^", "$", "{", "}", "(", ")", "|", "[", "]", "\\"}

LineTerminators == {"\n", "\r"}

\* Faulty variant of EscapeSpecials: nothing is escaped.
EscapeNothing(s) == s

\* match.replace(/[.+?^${}()|[\]\\]/g, '\\$&')
RECURSIVE EscapeSpecials(_)
EscapeSpecials(s) ==
  IF s = <<>> THEN <<>>
  ELSE (IF Head(s) \in RegexSpecials THEN <<"\\", Head(s)>> ELSE <<Head(s)>>)
       \o EscapeSpecials(Tail(s))

\* .replace(/\*/g, '.*')
RECURSIVE StarToDotStar(_)
StarToDotStar(s) ==
  IF s = <<>> THEN <<>>
  ELSE (IF Head(s) = "*" THEN <<".", "*">> ELSE <<Head(s)>>)
       \o StarToDotStar(Tail(s))

\* new RegExp(source): an atom is an escaped character (that character),
\* "." (any character but a line terminator) or any other character
\* (itself); "*", "+" or "?" after an atom quantifies it. Brackets, braces,
\* anchors and "|" reach the constructor escaped only.
RECURSIVE ParseRegex(_)
ParseRegex(src) ==
  IF src = <<>> THEN <<>>
  ELSE LET esc == Head(src) = "\\" /\ Len(src) >= 2
           atom == IF esc THEN [lit |-> src[2]]
                   ELSE IF Head(src) = "." THEN [dot |-> TRUE]
                   ELSE [lit |-> Head(src)]
           n == IF esc THEN 2 ELSE 1
           q == IF Len(src) > n /\ src[n + 1] \in {"*", "+", "?"}
                THEN src[n + 1] ELSE "1"
           m == IF q = "1" THEN n ELSE n + 1
       IN <<[atom |-> atom, q |-> q]>> \o ParseRegex(SubSeq(src, m + 1, Len(src)))

AtomAt(atom, url, i) ==
  /\ i <= Len(url)
  /\ IF "lit" \in DOMAIN atom THEN url[i] = atom.lit
     ELSE url[i] \notin LineTerminators

\* The positions at which a match of tokens[k..] that starts at url[i] can end
\* (one past its last character).
RECURSIVE MatchEnds(_, _, _, _)
MatchEnds(tokens, k, url, i) ==
  IF k > Len(tokens) THEN {i}
  ELSE LET here == AtomAt(tokens[k].atom, url, i)
           q == tokens[k].q
       IN (IF q \in {"*", "?"} THEN MatchEnds(tokens, k + 1, url, i) ELSE {})
          \cup (IF here /\ q \in {"1", "?", "+"}
                THEN MatchEnds(tokens, k + 1, url, i + 1) ELSE {})
          \cup (IF here /\ q \in {"*", "+"}
                THEN MatchEnds(tokens, k, url, i + 1) ELSE {})

\* new RegExp(`^${regexPattern}$`).test(url)
AnchoredTest(tokens, url) == (Len(url) + 1) \in MatchEnds(tokens, 1, url, 1)

Literal(source) ==
  [i \in 1..Len(source) |-> [atom |-> [lit |-> source[i]], q |-> "1"]]

\* RegExp.prototype.test of a literal expression: without the g flag the
\* search starts at 0 and lastIndex stays; with it the search starts at
\* lastIndex, which becomes the end of the match, or 0 when there is none.
RegExpTest(match, url, last) ==
  LET start == IF match.global THEN last ELSE 0
      hits == {i \in (start + 1)..(Len(url) + 1) :
                 MatchEnds(Literal(match.source), 1, url, i) # {}}
  IN IF hits = {}
     THEN [result |-> FALSE, lastIndex |-> IF match.global THEN 0 ELSE last]
     ELSE LET i == CHOOSE h \in hits : \A g \in hits : h <= g IN
          [result |-> TRUE,
           lastIndex |-> IF match.global
                         THEN i - 1 + Len(match.source) ELSE last]

Includes(s, c) == \E i \in 1..Len(s) : s[i] = c

\* Faulty variant of StartsWith: the prefix may start anywhere.
StartsAnywhere(s, prefix) ==
  \E k \in 1..(Len(s) + 1) :
    k + Len(prefix) - 1 <= Len(s) /\ SubSeq(s, k, k + Len(prefix) - 1) = prefix

StartsWith(s, prefix) ==
  Len(prefix) <= Len(s) /\ SubSeq(s, 1, Len(prefix)) = prefix

\* The result, and the lastIndex of the rule's RegExp after the call.
matchesRule(url, rule, last) ==
  LET match == rule.match IN
  IF match.kind = "function"
  THEN [result |-> url \in match.urls, lastIndex |-> last]
  ELSE IF match.kind = "regexp"
  THEN RegExpTest(match, url, last)
  ELSE IF Includes(match.pattern, "*")
  THEN LET regexPattern == StarToDotStar(EscapeSpecials(match.pattern)) IN
       [result |-> AnchoredTest(ParseRegex(regexPattern), url),
        lastIndex |-> last]
  ELSE [result |-> url = match.pattern \/ StartsWith(url, match.pattern),
        lastIndex |-> last]

\* The loop of findMatchingRule from rule i on: the index of the rule
\* returned (0 for undefined) and every RegExp's lastIndex afterwards.
RECURSIVE FindFrom(_, _, _, _)
FindFrom(url, rules, i, lasts) ==
  IF i > Len(rules) THEN [index |-> 0, lastIndex |-> lasts]
  ELSE LET m == matchesRule(url, rules[i], lasts[i])
           after == [lasts EXCEPT ![i] = m.lastIndex]
       IN IF m.result THEN [index |-> i, lastIndex |-> after]
          ELSE FindFrom(url, rules, i + 1, after)

\* Faulty variant of findMatchingRule: the last matching rule is returned.
RECURSIVE FindLastFrom(_, _, _, _)
FindLastFrom(url, rs, i, lasts) ==
  IF i < 1 THEN [index |-> 0, lastIndex |-> lasts]
  ELSE LET m == matchesRule(url, rs[i], lasts[i])
           after == [lasts EXCEPT ![i] = m.lastIndex]
       IN IF m.result THEN [index |-> i, lastIndex |-> after]
          ELSE FindLastFrom(url, rs, i - 1, after)

findLastMatchingRule(url, rs, lasts) == FindLastFrom(url, rs, Len(rs), lasts)

findMatchingRule(url, rules, lasts) == FindFrom(url, rules, 1, lasts)

(***************************************************************************)
(* The state: the plugin's closure, and the one response being handled.    *)
(***************************************************************************)
VARIABLES
  NODE_ENV,         \* process.env.NODE_ENV
  disableInDevelopment, \* options.disableInDevelopment
  plugin,           \* "unregistered", "installed", "disabled", "failed"
  resolvedDefaults, \* resolveDirectives(defaults)
  statusCodes,      \* options.statusCodes
  methods,          \* options.methods
  rules,            \* options.rules
  lastIndex,        \* lastIndex of each rule's RegExp (0 for the other kinds)
  cdn,              \* options.cdn: [directives, header]; header "" when unset
  autoVary,         \* options.autoVary
  request,          \* [method, url]
  statusCode,       \* reply.statusCode
  routeConfig,      \* reply.routeOptions.config.cache
  headers,          \* the reply's headers: name -> value
  slot,             \* reply[CACHE_SYMBOL]: Null or a Directive Set
  lastOp,           \* the last decorator call on this reply that returned
  pc,               \* "idle", "handler", "sent", "error"
  error,            \* the last error thrown, by registration or on this response
  entry,            \* headers and lastIndex when onSend was entered
  log,              \* the debugLog calls of onSend on this response
  input,            \* the Directive Set handed to an exported function
  result            \* what that call threw or returned

vars ==
  <<NODE_ENV, disableInDevelopment, plugin, resolvedDefaults, statusCodes, methods, rules, lastIndex, cdn,
    autoVary, request, statusCode, routeConfig, headers, slot, lastOp, pc,
    error, entry, log, input, result>>

call == <<input, result>>

closure ==
  <<NODE_ENV, disableInDevelopment, plugin, resolvedDefaults, statusCodes, methods, rules, cdn, autoVary>>

Null == [t |-> "null"]

NoHeaders == [n \in {} |-> ""]

\* reply.getHeader(name), and its truthiness: set, and not the empty string.
HasHeader(h, name) == name \in DOMAIN h

TruthyHeader(h, name) ==
  HasHeader(h, name) /\ h[name] # (IF name = "Vary" THEN <<>> ELSE "")

\* reply.header(name, value)
SetHeader(h, name, value) ==
  [n \in DOMAIN h \cup {name} |-> IF n = name THEN value ELSE h[n]]

NoCall == [op |-> "none"]

NoOp == [op |-> "none"]

NoCdn == [directives |-> Undefined, header |-> ""]

(***************************************************************************)
(* Inputs                                                                  *)
(***************************************************************************)
cookie == <<"c","o","o","k","i","e">>
xId == <<"x","-","i","d">>

dScoped ==
  [private |-> Names(<<cookie>>), noCache |-> Names(<<xId, cookie>>),
   maxAge |-> Sec(60)]
dConflict == [public |-> TRUE, private |-> Flag(TRUE)]
dNegative == [sMaxage |-> Sec(-1)]
dEmptyList == [noCache |-> Names(<<>>), noStore |-> FALSE]
dShared == [noCache |-> Names(<<xId>>), sMaxage |-> Sec(600)]

UrlA == <<"/","a">>
UrlAB == <<"/","a","/","b">>
UrlC == <<"/","c">>

Urls == {UrlA, UrlAB, UrlC}

Methods == {"GET", "POST"}

StatusCodes == {200, 404}

\* options.methods, options.statusCodes and options.autoVary, each left to
\* its default or set.
Toggles ==
  {[methods |-> DEFAULT_METHODS, statusCodes |-> DEFAULT_STATUS_CODES,
    autoVary |-> TRUE],
   [methods |-> {"POST"}, statusCodes |-> {200, 404}, autoVary |-> FALSE]}

DefaultsValues == {Undefined, Preset("page"), Preset("bogus")}

RouteConfigs == {Undefined, False, Preset("api")}

StringRule(pattern, cache) ==
  [match |-> [kind |-> "string", pattern |-> pattern], cache |-> cache]

RegExpRule(source, global, cache) ==
  [match |-> [kind |-> "regexp", source |-> source, global |-> global],
   cache |-> cache]

FunctionRule(urls, cache) ==
  [match |-> [kind |-> "function", urls |-> urls], cache |-> cache]

RuleLists ==
  {<<>>,
   <<StringRule(<<"/","a","/","*">>, False),
     StringRule(<<"/","a">>, Set(dScoped))>>,
   <<RegExpRule(<<"/","a">>, TRUE, Preset("static")),
     FunctionRule({UrlA, UrlC}, Preset("constructor")),
     FunctionRule({UrlAB}, Preset("bogus"))>>}

CdnValues ==
  {NoCdn,
   [directives |-> Set(dShared), header |-> ""],
   [directives |-> Set(dShared), header |-> "Cloudflare-CDN-Cache-Control"],
   [directives |-> Set(dNegative), header |-> "Cloudflare-CDN-Cache-Control"]}

CacheControlArgs ==
  {Set(dConflict), Set(dEmptyList), Preset("bogus")}

ImmutableArgs == {Sec(60)}

CachePresetArgs == {"private", "bogus"}

AppCacheControl == {"", "max-age=5"}

AppVary == {<<"A"," ",",","C","o","o","k","i","e">>}

NodeEnvs == {"development", "production"}

(***************************************************************************)
(* fastifyCacheControlPlugin: registration                                 *)
(***************************************************************************)
InitPlugin ==
  /\ disableInDevelopment = FALSE
  /\ plugin = "unregistered"
  /\ resolvedDefaults = Undefined
  /\ statusCodes = {}
  /\ methods = {}
  /\ rules = <<>>
  /\ lastIndex = <<>>
  /\ cdn = NoCdn
  /\ autoVary = TRUE
  /\ request = [method |-> "GET", url |-> UrlA]
  /\ statusCode = 200
  /\ routeConfig = Undefined
  /\ headers = NoHeaders
  /\ slot = Null
  /\ lastOp = NoOp
  /\ pc = "idle"
  /\ error = NoError
  /\ entry = [headers |-> NoHeaders, lastIndex |-> <<>>]
  /\ log = <<>>

InitResponse == InitPlugin /\ NODE_ENV = "production"

Init ==
  /\ InitPlugin
  /\ NODE_ENV \in NodeEnvs
  /\ input = EmptySet
  /\ result = NoCall

response ==
  <<request, statusCode, routeConfig, headers, slot, lastOp, pc, error, entry,
    log>>

\* Faulty variant of Disabled: NODE_ENV is not read.
DisabledByToggle(toggle, env) == toggle

Disabled(toggle, env) == toggle /\ env = "development"

\* The options of the model's registrations: under NODE_ENV = production
\* with the toggle off, every combination of the option values; with the
\* toggle on, or under development, the combinations without rules and CDN.
Registrations(env) ==
  [defaults : DefaultsValues, o : Toggles, rules : {<<>>}, cdn : {NoCdn},
   disableInDevelopment : IF env = "production" THEN {TRUE} ELSE BOOLEAN]
  \cup
  (IF env = "production"
   THEN [defaults : DefaultsValues, o : Toggles, rules : RuleLists,
         cdn : CdnValues, disableInDevelopment : {FALSE}]
   ELSE {})

Register ==
  \E options \in Registrations(NODE_ENV) :
    /\ plugin = "unregistered"
    /\ disableInDevelopment' = options.disableInDevelopment
    /\ IF Disabled(options.disableInDevelopment, NODE_ENV)
       THEN /\ plugin' = "disabled"
            /\ error' = NoError
            /\ UNCHANGED <<resolvedDefaults, statusCodes, methods, rules,
                           lastIndex, cdn, autoVary>>
       ELSE LET r == resolveDirectives(options.defaults) IN
            IF r.err # NoError
            THEN /\ plugin' = "failed"
                 /\ error' = r.err
                 /\ UNCHANGED <<resolvedDefaults, statusCodes, methods, rules,
                                lastIndex, cdn, autoVary>>
            ELSE /\ plugin' = "installed"
                 /\ error' = NoError
                 /\ resolvedDefaults' = r.value
                 /\ statusCodes' = options.o.statusCodes
                 /\ methods' = options.o.methods
                 /\ rules' = options.rules
                 /\ lastIndex' = [i \in 1..Len(options.rules) |-> 0]
                 /\ cdn' = options.cdn
                 /\ autoVary' = options.o.autoVary
    /\ UNCHANGED <<call, NODE_ENV, request, statusCode, routeConfig, headers,
                   slot, lastOp, pc, entry, log>>

(***************************************************************************)
(* A request reaches a route's handler; the handler is application code.   *)
(***************************************************************************)
Request ==
  \E m \in Methods, u \in Urls, sc \in StatusCodes, rc \in RouteConfigs :
    /\ plugin \in {"installed", "disabled"}
    /\ pc = "idle"
    /\ request' = [method |-> m, url |-> u]
    /\ statusCode' = sc
    /\ routeConfig' = rc
    /\ headers' = NoHeaders
    /\ slot' = Null
    /\ lastOp' = NoOp
    /\ pc' = "handler"
    /\ error' = NoError
    /\ entry' = [headers |-> NoHeaders, lastIndex |-> lastIndex]
    /\ log' = <<>>
    /\ UNCHANGED <<call, closure, lastIndex>>

\* reply.header('Cache-Control', v) or reply.header('Vary', v) in the handler.
AppHeader ==
  /\ pc = "handler"
  /\ \/ \E v \in AppCacheControl :
          headers' = SetHeader(headers, "Cache-Control", v)
     \/ \E v \in AppVary : headers' = SetHeader(headers, "Vary", v)
  /\ UNCHANGED <<call, closure, lastIndex, request, statusCode, routeConfig, slot,
                 lastOp, pc, error, entry, log>>

(***************************************************************************)
(* The reply decorators                                                    *)
(***************************************************************************)
\* Faulty variant of StoreResolved: a failed call clears the override.
StoreResolvedClearing(value) ==
  LET r == resolveDirectives(value) IN
  IF r.err # NoError THEN [slot |-> Null, err |-> r.err]
  ELSE IF r.value.t = "set" THEN [slot |-> r.value, err |-> NoError]
  ELSE [slot |-> slot, err |-> NoError]

\* Faulty variant of StoreResolved: an override already set is kept.
StoreResolvedOnce(value) ==
  LET r == resolveDirectives(value) IN
  IF r.err # NoError THEN [slot |-> slot, err |-> r.err]
  ELSE IF r.value.t = "set" /\ slot = Null
  THEN [slot |-> r.value, err |-> NoError]
  ELSE [slot |-> slot, err |-> NoError]

\* The body shared by reply.cacheControl and reply.cachePreset: the slot
\* and the thrown error after the call.
StoreResolved(value) ==
  LET r == resolveDirectives(value) IN
  IF r.err # NoError THEN [slot |-> slot, err |-> r.err]
  ELSE IF r.value.t = "set" THEN [slot |-> r.value, err |-> NoError]
  ELSE [slot |-> slot, err |-> NoError]

Decorated == plugin = "installed" /\ pc = "handler"

\* op is the call made: [op |-> the decorator, arg |-> its argument].
Override(stored, op) ==
  /\ slot' = stored.slot
  /\ error' = stored.err
  /\ lastOp' = IF stored.err = NoError
               THEN [op |-> op.op, arg |-> op.arg,
                     over |-> slot # Null /\ slot # stored.slot]
               ELSE lastOp
  /\ UNCHANGED <<call, closure, lastIndex, request, statusCode, routeConfig,
                 headers, pc, entry, log>>

cacheControl ==
  \E directives \in CacheControlArgs :
    /\ Decorated
    /\ Override(StoreResolved(directives),
                [op |-> "cacheControl", arg |-> directives])

noCache ==
  /\ Decorated
  /\ Override([slot |-> Set([noStore |-> TRUE]), err |-> NoError],
              [op |-> "noCache", arg |-> Undefined])

immutable ==
  \E maxAge \in ImmutableArgs :
    /\ Decorated
    /\ Override([slot |-> Set([public |-> TRUE, maxAge |-> maxAge,
                               immutable |-> TRUE]),
                 err |-> NoError],
                [op |-> "immutable", arg |-> Set([maxAge |-> maxAge])])

cachePreset ==
  \E preset \in CachePresetArgs :
    /\ Decorated
    /\ Override(StoreResolved(Preset(preset)),
                [op |-> "cachePreset", arg |-> Preset(preset)])

(***************************************************************************)
(* The onSend hook. Each step takes and gives the hook's local state:      *)
(* directives, the reply's headers, every RegExp's lastIndex, the debugLog *)
(* calls made and the error thrown (NoError while the hook runs).          *)
(***************************************************************************)
Logged(st, message) == [st EXCEPT !.log = Append(@, message)]

Thrown(st, e) == [st EXCEPT !.err = e]

\* 1. reply-level directives
ReplyLevel(st) ==
  IF slot # Null
  THEN Logged([st EXCEPT !.directives = slot], "Using reply-level directives")
  ELSE st

\* Faulty variant of RouteLevel: the route config is read even when the reply holds
\* an override.
RouteLevelOverOverride(st) ==
  IF routeConfig # Undefined
  THEN LET r == resolveDirectives(routeConfig) IN
       IF r.err # NoError THEN Thrown(st, r.err)
       ELSE Logged([st EXCEPT !.directives = r.value],
                   "Using route config directives")
  ELSE st

\* 2. route config
RouteLevel(st) ==
  IF st.directives = Undefined /\ routeConfig # Undefined
  THEN LET r == resolveDirectives(routeConfig) IN
       IF r.err # NoError THEN Thrown(st, r.err)
       ELSE Logged([st EXCEPT !.directives = r.value],
                   "Using route config directives")
  ELSE st

\* 3. pattern rules
RuleLevel(st) ==
  IF st.err = NoError /\ st.directives = Undefined /\ Len(rules) > 0
  THEN LET found == findMatchingRule(request.url, rules, st.lastIndex)
           searched == [st EXCEPT !.lastIndex = found.lastIndex]
       IN IF found.index # 0
          THEN LET r == resolveDirectives(rules[found.index].cache) IN
               IF r.err # NoError THEN Thrown(searched, r.err)
               ELSE Logged([searched EXCEPT !.directives = r.value],
                           "Using rule match")
          ELSE searched
  ELSE st

\* 4. defaults
DefaultsLevel(st) ==
  IF st.err = NoError /\ st.directives = Undefined
     /\ resolvedDefaults.t = "set"
  THEN Logged([st EXCEPT !.directives = resolvedDefaults],
              "Using default directives")
  ELSE st

\* Faulty variant of ApplyVary: the derived names come before the existing
\* ones.
ApplyVaryDerivedFirst(st) ==
  IF autoVary
  THEN LET varyFields == extractVaryFields(st.directives.d) IN
       IF Len(varyFields) > 0
       THEN LET existingFields ==
                  IF TruthyHeader(st.headers, "Vary")
                  THEN LET parts == Split(st.headers["Vary"], ",") IN
                       [i \in 1..Len(parts) |-> Trim(parts[i])]
                  ELSE <<>>
                allFields == Dedup(varyFields \o existingFields)
            IN Logged([st EXCEPT !.headers =
                          SetHeader(@, "Vary", Join(allFields, <<",", " ">>))],
                      "Set Vary")
       ELSE st
  ELSE st

\* The auto-set Vary header.
ApplyVary(st) ==
  IF autoVary
  THEN LET varyFields == extractVaryFields(st.directives.d) IN
       IF Len(varyFields) > 0
       THEN LET existingFields ==
                  IF TruthyHeader(st.headers, "Vary")
                  THEN LET parts == Split(st.headers["Vary"], ",") IN
                       [i \in 1..Len(parts) |-> Trim(parts[i])]
                  ELSE <<>>
                allFields == Dedup(existingFields \o varyFields)
            IN Logged([st EXCEPT !.headers =
                          SetHeader(@, "Vary", Join(allFields, <<",", " ">>))],
                      "Set Vary")
       ELSE st
  ELSE st

\* Faulty variant of ApplyCdn: cdn.header is not read.
ApplyCdnDefaultName(st) ==
  IF cdn.directives.t = "set"
  THEN LET cdnValue == serializeDirectives(cdn.directives.d) IN
       IF cdnValue.err # NoError THEN Thrown(st, cdnValue.err)
       ELSE Logged([st EXCEPT !.headers =
                       SetHeader(@, "CDN-Cache-Control", cdnValue.value)],
                   "Applied CDN")
  ELSE st

\* Faulty variant of ApplyCdn: the Vary header is derived from the CDN
\* Directive Set as well.
ApplyCdnWithVary(st) ==
  IF cdn.directives.t = "set"
  THEN LET cdnHeader == IF cdn.header # "" THEN cdn.header
                        ELSE "CDN-Cache-Control"
           cdnValue == serializeDirectives(cdn.directives.d)
       IN IF cdnValue.err # NoError THEN Thrown(st, cdnValue.err)
          ELSE ApplyVary(
                 [Logged([st EXCEPT !.headers =
                            SetHeader(@, cdnHeader, cdnValue.value)],
                         "Applied CDN")
                  EXCEPT !.directives = cdn.directives])
  ELSE st

\* CDN-Cache-Control
ApplyCdn(st) ==
  IF cdn.directives.t = "set"
  THEN LET cdnHeader == IF cdn.header # "" THEN cdn.header
                        ELSE "CDN-Cache-Control"
           cdnValue == serializeDirectives(cdn.directives.d)
       IN IF cdnValue.err # NoError THEN Thrown(st, cdnValue.err)
          ELSE Logged([st EXCEPT !.headers =
                          SetHeader(@, cdnHeader, cdnValue.value)],
                      "Applied CDN")
  ELSE st

\* Faulty variant of Apply: the CDN header is also written for cache: false.
ApplyCdnOnDisable(st) ==
  IF st.err # NoError THEN st
  ELSE IF st.directives = False
  THEN ApplyCdn(
         Logged([st EXCEPT !.headers =
                    SetHeader(@, "Cache-Control", "no-store")],
                "Applied no-store (cache: false)"))
  ELSE IF st.directives.t = "set"
  THEN LET headerValue == serializeDirectives(st.directives.d) IN
       IF headerValue.err # NoError THEN Thrown(st, headerValue.err)
       ELSE ApplyCdn(ApplyVary(
              Logged([st EXCEPT !.headers =
                         SetHeader(@, "Cache-Control", headerValue.value)],
                     "Applied")))
  ELSE st

\* Apply directives
Apply(st) ==
  IF st.err # NoError THEN st
  ELSE IF st.directives = False
  THEN Logged([st EXCEPT !.headers = SetHeader(@, "Cache-Control", "no-store")],
              "Applied no-store (cache: false)")
  ELSE IF st.directives.t = "set"
  THEN LET headerValue == serializeDirectives(st.directives.d) IN
       IF headerValue.err # NoError THEN Thrown(st, headerValue.err)
       ELSE ApplyCdn(ApplyVary(
              Logged([st EXCEPT !.headers =
                         SetHeader(@, "Cache-Control", headerValue.value)],
                     "Applied")))
  ELSE st

HookStart ==
  [directives |-> Undefined, headers |-> headers, lastIndex |-> lastIndex,
   log |-> <<>>, err |-> NoError]

\* Faulty variant of onSendHook: the status code is not checked.
onSendHookAnyStatus ==
  IF TruthyHeader(headers, "Cache-Control")
  THEN Logged(HookStart, "Skipping - Cache-Control already set")
  ELSE IF request.method \notin methods
  THEN Logged(HookStart, "Skipping - method not in allowed list")
  ELSE Apply(DefaultsLevel(RuleLevel(RouteLevel(ReplyLevel(HookStart)))))

onSendHook ==
  IF TruthyHeader(headers, "Cache-Control")
  THEN Logged(HookStart, "Skipping - Cache-Control already set")
  ELSE IF request.method \notin methods
  THEN Logged(HookStart, "Skipping - method not in allowed list")
  ELSE IF statusCode \notin statusCodes
  THEN Logged(HookStart, "Skipping - status not in allowed list")
  ELSE Apply(DefaultsLevel(RuleLevel(RouteLevel(ReplyLevel(HookStart)))))

onSend ==
  /\ plugin = "installed"
  /\ pc = "handler"
  /\ LET st == onSendHook IN
     /\ headers' = st.headers
     /\ lastIndex' = st.lastIndex
     /\ log' = st.log
     /\ error' = st.err
     /\ pc' = IF st.err = NoError THEN "sent" ELSE "error"
  /\ entry' = [headers |-> headers, lastIndex |-> lastIndex]
  /\ UNCHANGED <<call, closure, request, statusCode, routeConfig, slot,
                 lastOp>>

\* The plugin returned before installing anything: no hook runs.
SendUnhooked ==
  /\ plugin = "disabled"
  /\ pc = "handler"
  /\ pc' = "sent"
  /\ entry' = [headers |-> headers, lastIndex |-> lastIndex]
  /\ UNCHANGED <<call, closure, lastIndex, request, statusCode, routeConfig,
                 headers, slot, lastOp, error, log>>

\* The response has left the process: its state is discarded.
Close ==
  /\ pc \in {"sent", "error"}
  /\ request' = [method |-> "GET", url |-> UrlA]
  /\ statusCode' = 200
  /\ routeConfig' = Undefined
  /\ headers' = NoHeaders
  /\ slot' = Null
  /\ lastOp' = NoOp
  /\ pc' = "idle"
  /\ error' = NoError
  /\ entry' = [headers |-> NoHeaders, lastIndex |-> <<>>]
  /\ log' = <<>>
  /\ UNCHANGED <<call, closure, lastIndex>>

Next ==
  \/ Register
  \/ Request
  \/ AppHeader
  \/ cacheControl
  \/ noCache
  \/ immutable
  \/ cachePreset
  \/ onSend
  \/ SendUnhooked
  \/ Close

Spec == Init /\ [][Next]_vars

(***************************************************************************)
(* The exported serializeDirectives, and validateDirectives, called on a   *)
(* Directive Set of the caller's.                                          *)
(***************************************************************************)
MaxNames == 1

FieldNames == {cookie}

NameLists == UNION {[1..n -> FieldNames] : n \in 0..MaxNames}

Absent == [p |-> FALSE]
Present(v) == [p |-> TRUE, v |-> v]

ScopedValues ==
  {Absent, Present(Flag(TRUE)), Present(Flag(FALSE))}
  \cup {Present(Names(l)) : l \in NameLists}

DirectiveChoices ==
  [public : {Absent, Present(TRUE), Present(FALSE)},
   private : ScopedValues,
   noCache : ScopedValues \ {Present(Flag(FALSE))},
   noStore : {Absent, Present(TRUE)},
   maxAge : {Absent, Present(Sec(-1)), Present(Sec(60))},
   sMaxage : {Absent, Present(Sec(-1)), Present(0)},
   staleWhileRevalidate : {Absent, Present(Sec(-1))},
   staleIfError : {Absent, Present(Sec(-1)), Present(Sec(5))}]

DirectivesOf(c) == [f \in {g \in DOMAIN c : c[g].p} |-> c[f].v]

DirectiveSets == {DirectivesOf(c) : c \in DirectiveChoices}

InitCall ==
  /\ InitResponse
  /\ input \in DirectiveSets
  /\ result = NoCall

CallValidate ==
  /\ result = NoCall
  /\ result' = [op |-> "validate", err |-> validateDirectives(input),
                value |-> ""]
  /\ UNCHANGED <<input, closure, lastIndex, response>>

CallSerialize ==
  /\ result = NoCall
  /\ LET r == serializeDirectives(input) IN
     result' = [op |-> "serialize", err |-> r.err, value |-> r.value]
  /\ UNCHANGED <<input, closure, lastIndex, response>>

NextCall == CallValidate \/ CallSerialize

SpecCall == InitCall /\ [][NextCall]_vars

(***************************************************************************)
(* Properties of the onSend hook (specification Spec)                      *)
(***************************************************************************)
\* onSend has run on the response.
Finalized == plugin = "installed" /\ pc \in {"sent", "error"}

Allowed == request.method \in methods /\ statusCode \in statusCodes

Written(name, value) == headers = SetHeader(entry.headers, name, value)

MatchedAtEntry == findMatchingRule(request.url, rules, entry.lastIndex).index

Returned(value) == [err |-> NoError, value |-> value]

\* The first source, in the order reply, route config, rule, defaults, that
\* is defined, and what resolving it gives.
FirstSource ==
  IF slot # Null
  THEN [message |-> "Using reply-level directives", r |-> Returned(slot)]
  ELSE IF routeConfig # Undefined
  THEN [message |-> "Using route config directives",
        r |-> resolveDirectives(routeConfig)]
  ELSE IF MatchedAtEntry # 0
  THEN [message |-> "Using rule match",
        r |-> resolveDirectives(rules[MatchedAtEntry].cache)]
  ELSE IF resolvedDefaults # Undefined
  THEN [message |-> "Using default directives",
        r |-> Returned(resolvedDefaults)]
  ELSE [message |-> "", r |-> Returned(Undefined)]

IsUsing(message) ==
  message \in {"Using reply-level directives", "Using route config directives",
               "Using rule match", "Using default directives"}

\* C1: at the finalization of a response without a Cache-Control header
\* whose method and status are allowed, the outcome is what the first
\* defined source among reply override, route config, first matching rule
\* and defaults resolves to, and no other source is used: its error is the
\* hook's error and nothing is written; explicit-disable writes no-store;
\* a Directive Set writes its serialization (or fails in validation with
\* nothing written); no defined source writes nothing.
C1_ResolutionPriority ==
  (Finalized /\ ~HasHeader(entry.headers, "Cache-Control") /\ Allowed) =>
    LET src == FirstSource IN
    /\ SelectSeq(log, IsUsing) =
         IF src.message = "" \/ src.r.err # NoError THEN <<>>
         ELSE <<src.message>>
    /\ IF src.r.err # NoError
       THEN error = src.r.err /\ headers = entry.headers
       ELSE IF src.r.value = Undefined
       THEN error = NoError /\ headers = entry.headers
       ELSE IF src.r.value = False
       THEN error = NoError /\ Written("Cache-Control", "no-store")
       ELSE LET v == serializeDirectives(src.r.value.d) IN
            IF v.err # NoError
            THEN error = v.err /\ headers = entry.headers
            ELSE /\ HasHeader(headers, "Cache-Control")
                 /\ headers["Cache-Control"] = v.value

\* C1 witness: an override, a route config, a matching rule and defaults
\* are all defined, and the header written is the override's.
C1_Witness ==
  /\ Finalized /\ ~HasHeader(entry.headers, "Cache-Control") /\ Allowed
  /\ slot = Set(CACHE_PRESETS["private"])
  /\ routeConfig = Preset("api")
  /\ MatchedAtEntry # 0
  /\ resolvedDefaults = Set(CACHE_PRESETS["page"])
  /\ pc = "sent"
  /\ headers["Cache-Control"] = "private, must-revalidate, max-age=60"

\* C2: a Cache-Control header the application set before finalization is
\* left as it is, whatever its value: the hook stops at its first check and
\* changes no header.
C2_ExistingHeaderUntouched ==
  (Finalized /\ HasHeader(entry.headers, "Cache-Control")) =>
    /\ headers = entry.headers
    /\ log = <<"Skipping - Cache-Control already set">>

\* C3: a finalization that ends in an error has written no header.
C3_NoWriteBeforeError ==
  (plugin = "installed" /\ pc = "error") => headers = entry.headers

\* C4: when the method or the status code is not in its allow-list the
\* hook writes no header and throws nothing, whatever the override.
C4_GateWritesNothing ==
  (Finalized /\ ~Allowed) =>
    /\ headers = entry.headers
    /\ pc = "sent"
    /\ SelectSeq(log, IsUsing) = <<>>

\* C4 witness: the method is allowed and the status is not, on a response
\* that holds an override and no Cache-Control header, under defaults.
C4_Witness ==
  /\ Finalized
  /\ request.method \in methods
  /\ statusCode \notin statusCodes
  /\ slot # Null
  /\ resolvedDefaults # Undefined
  /\ ~HasHeader(entry.headers, "Cache-Control")

ExplicitDisable ==
  /\ slot = Null
  /\ \/ routeConfig = False
     \/ /\ routeConfig = Undefined
        /\ MatchedAtEntry # 0
        /\ rules[MatchedAtEntry].cache = False

\* C5: when the outcome is explicit-disable (false from the route config
\* or from the first matching rule), the hook writes Cache-Control:
\* no-store and nothing else: Vary stays as it was and no CDN header is set.
C5_DisableWritesOnlyNoStore ==
  (Finalized /\ ~TruthyHeader(entry.headers, "Cache-Control") /\ Allowed
   /\ ExplicitDisable) =>
    /\ pc = "sent"
    /\ Written("Cache-Control", "no-store")

\* C5 witness: a rule gives false while a CDN Directive Set is configured.
C5_Witness ==
  /\ Finalized /\ ~TruthyHeader(entry.headers, "Cache-Control") /\ Allowed
  /\ ExplicitDisable
  /\ routeConfig = Undefined
  /\ cdn.directives = Set(dShared)
  /\ headers["Cache-Control"] = "no-store"

\* C6: after reply.noCache() as the last override, finalization of an
\* eligible response writes Cache-Control: no-store and nothing else, no
\* CDN header and no Vary header.
C6_NoCacheIsExplicitDisable ==
  (Finalized /\ ~TruthyHeader(entry.headers, "Cache-Control") /\ Allowed
   /\ slot = Set([noStore |-> TRUE])) =>
    /\ pc = "sent"
    /\ Written("Cache-Control", "no-store")

\* C7: the hook never writes a Cache-Control header whose value is the
\* empty string.
C7_NoEmptyHeaderWritten ==
  Finalized =>
    ~(/\ \E i \in 1..Len(log) : log[i] = "Applied"
      /\ headers["Cache-Control"] = "")

UnknownPreset(value) ==
  value.t = "preset" /\ value.name \notin DOMAIN CACHE_PRESETS

\* C10: when the source that decides an eligible response (the route
\* config, or the first matching rule) names a string outside the preset
\* enumeration, finalization fails with INVALID_PRESET and writes nothing.
C10_UnknownPresetFails ==
  (Finalized /\ ~TruthyHeader(entry.headers, "Cache-Control") /\ Allowed
   /\ slot = Null
   /\ \/ UnknownPreset(routeConfig)
      \/ /\ routeConfig = Undefined
         /\ MatchedAtEntry # 0
         /\ UnknownPreset(rules[MatchedAtEntry].cache)) =>
    /\ pc = "error"
    /\ error.code = ErrorCodes.INVALID_PRESET
    /\ headers = entry.headers

(***************************************************************************)
(* Properties of validateDirectives and serializeDirectives (SpecCall)     *)
(***************************************************************************)
Without(d, f) == [g \in DOMAIN d \ {f} |-> d[g]]

EmptyList(d, f) == IsArray(d, f) /\ d[f].names = <<>>

AsIfCalled(d) ==
  IF result.op = "validate"
  THEN [op |-> "validate", err |-> validateDirectives(d), value |-> ""]
  ELSE [op |-> "serialize", err |-> serializeDirectives(d).err,
        value |-> serializeDirectives(d).value]

\* C8: a Directive Set whose private or noCache is an empty list validates
\* and serializes exactly as the same set without that field.
C8_EmptyListIsAbsent ==
  result # NoCall =>
    \A f \in {"private", "noCache"} :
      EmptyList(input, f) => result = AsIfCalled(Without(input, f))

DurationFields == <<"maxAge", "sMaxage", "staleWhileRevalidate", "staleIfError">>

Conflicting(d) ==
  /\ "public" \in DOMAIN d /\ d["public"]
  /\ "private" \in DOMAIN d /\ d["private"] # Flag(FALSE)

NegativeDurations(d) ==
  {i \in 1..Len(DurationFields) :
     DurationFields[i] \in DOMAIN d /\ d[DurationFields[i]] < 0}

FirstOf(S) == CHOOSE i \in S : \A j \in S : i <= j

Switch == {Absent, Present(TRUE)}

SerializeChoices ==
  [public : {Absent, Present(TRUE), Present(FALSE)},
   private : {Absent, Present(Flag(TRUE)), Present(Names(<<>>)),
              Present(Names(<<cookie, xId>>))},
   noCache : {Absent, Present(Flag(TRUE)), Present(Names(<<xId, cookie>>))},
   noStore : Switch,
   noTransform : Switch,
   mustRevalidate : Switch,
   proxyRevalidate : Switch,
   mustUnderstand : Switch,
   immutable : Switch,
   maxAge : {Absent, Present(0), Present(Sec(60) + 5)},
   sMaxage : {Absent, Present(Sec(600))},
   staleWhileRevalidate : {Absent, Present(Sec(30) + 4)},
   staleIfError : {Absent, Present(Sec(-1))}]

SerializeInputs == {DirectivesOf(c) : c \in SerializeChoices}

InitSerialize ==
  /\ InitResponse
  /\ input \in SerializeInputs
  /\ result = NoCall

SpecSerialize == InitSerialize /\ [][NextCall]_vars

\* The directives in their fixed order: the field that holds each, its
\* token, and what kind of value the field holds.
Canonical ==
  <<[field |-> "public", token |-> "public", kind |-> "flag"],
    [field |-> "private", token |-> "private", kind |-> "scoped"],
    [field |-> "noCache", token |-> "no-cache", kind |-> "scoped"],
    [field |-> "noStore", token |-> "no-store", kind |-> "flag"],
    [field |-> "noTransform", token |-> "no-transform", kind |-> "flag"],
    [field |-> "mustRevalidate", token |-> "must-revalidate", kind |-> "flag"],
    [field |-> "proxyRevalidate", token |-> "proxy-revalidate", kind |-> "flag"],
    [field |-> "mustUnderstand", token |-> "must-understand", kind |-> "flag"],
    [field |-> "immutable", token |-> "immutable", kind |-> "flag"],
    [field |-> "maxAge", token |-> "max-age", kind |-> "duration"],
    [field |-> "sMaxage", token |-> "s-maxage", kind |-> "duration"],
    [field |-> "staleWhileRevalidate", token |-> "stale-while-revalidate",
     kind |-> "duration"],
    [field |-> "staleIfError", token |-> "stale-if-error", kind |-> "duration"]>>

\* The integer nearest to a non-negative duration, a half going up.
Nearest(x) ==
  CHOOSE n \in (x \div Scale)..(x \div Scale + 1) :
    2 * Scale * n - Scale <= 2 * x /\ 2 * x < 2 * Scale * n + Scale

RECURSIVE CommaList(_)
CommaList(l) ==
  IF Len(l) = 1 THEN Str(l[1]) ELSE Str(l[1]) \o ", " \o CommaList(Tail(l))

\* The tokens the i-th directive contributes: one or none.
TokensOf(d, c) ==
  IF c.field \notin DOMAIN d THEN <<>>
  ELSE IF c.kind = "flag"
  THEN IF d[c.field] THEN <<c.token>> ELSE <<>>
  ELSE IF c.kind = "scoped"
  THEN IF d[c.field] = Flag(TRUE) THEN <<c.token>>
       ELSE IF d[c.field] = Flag(FALSE) \/ d[c.field] = Names(<<>>) THEN <<>>
       ELSE <<c.token \o "=\"" \o CommaList(d[c.field].names) \o "\"">>
  ELSE <<c.token \o "=" \o ToString(Nearest(d[c.field]))>>

RECURSIVE TokensFrom(_, _)
TokensFrom(d, i) ==
  IF i > Len(Canonical) THEN <<>>
  ELSE TokensOf(d, Canonical[i]) \o TokensFrom(d, i + 1)

RECURSIVE CommaJoined(_)
CommaJoined(tokens) ==
  IF tokens = <<>> THEN ""
  ELSE IF Len(tokens) = 1 THEN tokens[1]
  ELSE tokens[1] \o ", " \o CommaJoined(Tail(tokens))

Valid(d) == ~Conflicting(d) /\ NegativeDurations(d) = {}

Eligible ==
  Finalized /\ ~TruthyHeader(entry.headers, "Cache-Control") /\ Allowed

\* What the hook does with the resolution r of the deciding source.
Outcome(r) ==
  IF r.err # NoError THEN error = r.err /\ headers = entry.headers
  ELSE IF r.value = Undefined THEN error = NoError /\ headers = entry.headers
  ELSE IF r.value = False
  THEN error = NoError /\ Written("Cache-Control", "no-store")
  ELSE LET v == serializeDirectives(r.value.d) IN
       IF v.err # NoError THEN error = v.err /\ headers = entry.headers
       ELSE HasHeader(headers, "Cache-Control")
            /\ headers["Cache-Control"] = v.value

\* The rules whose matcher returns true for the request, each RegExp being
\* in the state it was in when the hook was entered.
Matching ==
  {i \in 1..Len(rules) :
     matchesRule(request.url, rules[i], entry.lastIndex[i]).result}

\* C12: when the rules decide (no override, no route config), the rule
\* used is the matching rule of smallest index, the rules after it are not
\* even evaluated, and without a matching rule the defaults decide.
C12_FirstMatchWins ==
  (Eligible /\ slot = Null /\ routeConfig = Undefined) =>
    IF Matching # {}
    THEN LET first == FirstOf(Matching) IN
         /\ Outcome(resolveDirectives(rules[first].cache))
         /\ \A j \in (first + 1)..Len(rules) :
              lastIndex[j] = entry.lastIndex[j]
         /\ \A i \in 1..Len(log) : log[i] # "Using default directives"
    ELSE /\ Outcome(Returned(resolvedDefaults))
         /\ \A i \in 1..Len(log) : log[i] # "Using rule match"

\* C12 witness: two rules match the request, the first one disables
\* caching, the second one holds a Directive Set, and defaults are set.
C12_Witness ==
  /\ Eligible /\ slot = Null /\ routeConfig = Undefined
  /\ Cardinality(Matching) = 2
  /\ rules[1].cache = False
  /\ rules[2].cache.t = "set"
  /\ resolvedDefaults # Undefined
  /\ headers["Cache-Control"] = "no-store"

\* What the last decorator call asked for, as a Directive Set.
Requested(op) ==
  IF op.op = "noCache" THEN [noStore |-> TRUE]
  ELSE IF op.op = "immutable"
  THEN [public |-> TRUE, maxAge |-> op.arg.d["maxAge"], immutable |-> TRUE]
  ELSE IF op.arg.t = "preset" THEN CACHE_PRESETS[op.arg.name]
  ELSE op.arg.d

\* C13: the override used at finalization is the one of the last
\* successful decorator call on the response, whatever was set before it.
C13_LastOverrideWins ==
  (Eligible /\ lastOp # NoOp) =>
    /\ Outcome(Returned(Set(Requested(lastOp))))
    /\ SelectSeq(log, IsUsing) = <<"Using reply-level directives">>

\* C13 witness: reply.cacheControl replaced another override, and its
\* Directive Set is the one validated at finalization.
C13_Witness ==
  /\ Eligible /\ lastOp # NoOp
  /\ lastOp.op = "cacheControl" /\ lastOp.over
  /\ lastOp.arg = Set(dConflict)
  /\ error.code = ErrorCodes.CONFLICT

\* The names a CDN header can have in the configurations of the model.
CdnNames == {"CDN-Cache-Control"} \cup ({c.header : c \in CdnValues} \ {""})

CdnName == IF cdn.header # "" THEN cdn.header ELSE "CDN-Cache-Control"

PrimaryIsSet ==
  FirstSource.r.err = NoError /\ FirstSource.r.value.t = "set"

CdnConfigured == cdn.directives.t = "set"

\* The headers of CdnNames on the reply are: the one named CdnName, holding
\* the serialized CDN Directive Set, when due holds; none otherwise.
CdnHeaderIff(due) ==
  /\ \A n \in CdnNames : HasHeader(headers, n) <=> (due /\ n = CdnName)
  /\ due => headers[CdnName] = serializeDirectives(cdn.directives.d).value

\* C14, as stated: the CDN header is written exactly when finalization is
\* not skipped, the primary outcome is a Directive Set and a CDN Directive
\* Set is configured; under cdn.header or CDN-Cache-Control; with the
\* serialization of the CDN Directive Set as its value.
C14_CdnHeaderExactly ==
  Finalized => CdnHeaderIff(Eligible /\ PrimaryIsSet /\ CdnConfigured)

\* C14, amended: the same, exactly when moreover the primary and the CDN
\* Directive Set both pass validation (a set that fails validation ends
\* the finalization in an error before the CDN header is written).
C14_CdnHeaderWhenValid ==
  Finalized =>
    CdnHeaderIff(/\ Eligible /\ PrimaryIsSet /\ CdnConfigured
                 /\ validateDirectives(FirstSource.r.value.d) = NoError
                 /\ validateDirectives(cdn.directives.d) = NoError)

\* C14 witness: a CDN header is written under the configured name next to
\* the Cache-Control of a rule's Directive Set.
C14_Witness ==
  /\ Eligible /\ PrimaryIsSet /\ CdnConfigured
  /\ cdn.header = "Cloudflare-CDN-Cache-Control"
  /\ slot = Null /\ routeConfig = Undefined /\ MatchedAtEntry # 0
  /\ HasHeader(headers, "Cloudflare-CDN-Cache-Control")
  /\ headers["Cloudflare-CDN-Cache-Control"]
       = "no-cache=\"x-id\", s-maxage=600"
  /\ headers["Cache-Control"] =
       "private=\"cookie\", no-cache=\"x-id, cookie\", max-age=60"

(***************************************************************************)
(* Properties of the Vary header (Spec)                                    *)
(***************************************************************************)
\* The names the reply carried under Vary when the hook was entered.
ExistingVary ==
  IF HasHeader(entry.headers, "Vary")
  THEN LET parts == Split(entry.headers["Vary"], ",") IN
       [i \in 1..Len(parts) |-> Trim(parts[i])]
  ELSE <<>>

Occurs(name, names) == \E i \in 1..Len(names) : names[i] = name

\* names, followed by those of more that are not yet in the list.
RECURSIVE Merged(_, _)
Merged(names, more) ==
  IF more = <<>> THEN names
  ELSE Merged(IF Occurs(more[1], names) THEN names
              ELSE Append(names, more[1]),
              Tail(more))

NoRepeat(names) ==
  \A i, j \in 1..Len(names) : names[i] = names[j] => i = j

\* The hook got as far as writing Cache-Control from a Directive Set.
SerializedPrimary ==
  /\ Eligible /\ PrimaryIsSet
  /\ validateDirectives(FirstSource.r.value.d) = NoError

\* C15: with autoVary on and a resolved Directive Set that has scoped
\* field names, the Vary header written holds the names already under Vary
\* in their order, then the derived names not yet present, joined with
\* ", ", and no name twice.
C15_VaryMerged ==
  (SerializedPrimary /\ autoVary
   /\ extractVaryFields(FirstSource.r.value.d) # <<>>) =>
    LET derived == extractVaryFields(FirstSource.r.value.d)
        all == Merged(ExistingVary, derived)
    IN /\ HasHeader(headers, "Vary")
       /\ headers["Vary"] = Join(all, <<",", " ">>)
       /\ NoRepeat(Split(headers["Vary"], ","))

\* C15 witness: the reply carried "A ,Cookie"; Cookie and X-Id are derived;
\* "A, Cookie, X-Id" is written.
C15_Witness ==
  /\ SerializedPrimary /\ autoVary
  /\ HasHeader(entry.headers, "Vary")
  /\ extractVaryFields(FirstSource.r.value.d)
       = <<<<"C","o","o","k","i","e">>, <<"X","-","I","d">>>>
  /\ Str(headers["Vary"]) = "A, Cookie, X-Id"

(***************************************************************************)
(* Properties of a response among other responses (Spec)                   *)
(***************************************************************************)
\* What the hook does on this response when no response was resolved
\* before it: every RegExp of the rules is as it was at registration.
HookAlone ==
  IF \/ TruthyHeader(headers, "Cache-Control")
     \/ request.method \notin methods
     \/ statusCode \notin statusCodes
  THEN HookStart
  ELSE Apply(DefaultsLevel(RuleLevel(RouteLevel(ReplyLevel(
         [HookStart EXCEPT !.lastIndex = [i \in 1..Len(rules) |-> 0]])))))

\* C16: the headers the hook writes on a response, and the error it ends
\* in, are those it would write had no other response been resolved before:
\* they depend on the response's own request, status, headers and override.
C16_NoCrossRequestMemory ==
  [][onSend => (headers' = HookAlone.headers /\ error' = HookAlone.err)]_vars

(***************************************************************************)
(* Properties of the header values written (Spec)                          *)
(***************************************************************************)
InLog(message) == \E i \in 1..Len(log) : log[i] = message

\* value is the serialization of d, and d passed validation: its tokens
\* do not hold public together with private, nor a negative duration.
FromValidated(value, d) ==
  /\ Valid(d)
  /\ value = CommaJoined(TokensFrom(d, 1))
  /\ ~(TokensOf(d, Canonical[1]) # <<>> /\ TokensOf(d, Canonical[2]) # <<>>)
  /\ \A i \in 10..13 :
       Canonical[i].field \in DOMAIN d => d[Canonical[i].field] >= 0

\* C17: a Cache-Control or CDN header value written from a Directive Set
\* is the serialization of a set that passed validation, whatever the
\* origin of the set.
C17_WrittenValuesValidated ==
  Finalized =>
    /\ InLog("Applied") =>
         /\ PrimaryIsSet
         /\ FromValidated(headers["Cache-Control"], FirstSource.r.value.d)
    /\ InLog("Applied CDN") =>
         /\ CdnConfigured
         /\ FromValidated(headers[CdnName], cdn.directives.d)
    /\ \A n \in CdnNames : HasHeader(headers, n) => InLog("Applied CDN")
    /\ (HasHeader(headers, "Cache-Control")
        /\ headers # entry.headers /\ ~InLog("Applied")) =>
         headers["Cache-Control"] = "no-store"

\* C17 witness: a set with public and private failed at finalization and
\* no header was written from it, with a CDN Directive Set configured.
C17_Witness ==
  /\ Eligible /\ PrimaryIsSet /\ CdnConfigured
  /\ Conflicting(FirstSource.r.value.d)
  /\ pc = "error" /\ error.code = ErrorCodes.CONFLICT
  /\ headers = entry.headers

(***************************************************************************)
(* matchesRule called on a string pattern and a URL (SpecMatch)            *)
(***************************************************************************)
MaxPatternLen == 3

MaxUrlLen == 3

PatternChars == {"a", "*", ".", "+", "?", "(", "["}

UrlChars == {"a", ".", "+", "?", "(", "["}

Patterns == UNION {[1..n -> PatternChars] : n \in 0..MaxPatternLen}

RequestUrls == UNION {[1..n -> UrlChars] : n \in 0..MaxUrlLen}

InitMatch ==
  /\ InitResponse
  /\ input \in [pattern : Patterns, url : RequestUrls]
  /\ result = NoCall

CallMatch ==
  /\ result = NoCall
  /\ result' = [op |-> "match",
                value |-> matchesRule(input.url,
                                      StringRule(input.pattern, False),
                                      0).result]
  /\ UNCHANGED <<input, closure, lastIndex, response>>

NextMatch == CallMatch

SpecMatch == InitMatch /\ [][NextMatch]_vars

HasStar(pattern) == \E i \in 1..Len(pattern) : pattern[i] = "*"

IsPrefix(pattern, url) ==
  \E k \in 0..Len(url) : SubSeq(url, 1, k) = pattern

\* C18: a pattern without '*' matches a URL exactly when the URL equals
\* the pattern or starts with it.
C18_PrefixMatch ==
  (result # NoCall /\ ~HasStar(input.pattern)) =>
    result.value = (input.url = input.pattern
                    \/ IsPrefix(input.pattern, input.url))

\* C18 witness: a pattern matched a longer URL that starts with it.
C18_Witness ==
  /\ result # NoCall
  /\ input.pattern = <<"a", ".">>
  /\ input.url = <<"a", ".", "a">>
  /\ result.value = TRUE

\* The whole of url is pattern with each '*' standing for some substring.
RECURSIVE Glob(_, _)
Glob(pattern, url) ==
  IF pattern = <<>> THEN url = <<>>
  ELSE IF Head(pattern) = "*"
  THEN Glob(Tail(pattern), url) \/ (url # <<>> /\ Glob(pattern, Tail(url)))
  ELSE url # <<>> /\ Head(url) = Head(pattern)
       /\ Glob(Tail(pattern), Tail(url))

\* C19: a pattern with '*' matches a URL exactly when the whole URL is the
\* pattern with each '*' replaced by some, possibly empty, substring, every
\* other character of the pattern standing for itself.
C19_WildcardMatch ==
  (result # NoCall /\ HasStar(input.pattern)) =>
    result.value = Glob(input.pattern, input.url)

\* C19 witness: '.' and '+' of the pattern matched themselves around a
\* wildcard.
C19_Witness ==
  /\ result # NoCall
  /\ input.pattern = <<".", "*", "+">>
  /\ input.url = <<".", "a", "+">>
  /\ result.value = TRUE

(***************************************************************************)
(* validateDirectives and serializeDirectives called on one duration       *)
(* (SpecDuration). Durations are counted in 1/Scale of a second.           *)
(***************************************************************************)
MaxDuration == 45

MaxBelowZero == 15

Durations == (0 - MaxBelowZero)..MaxDuration

DurationInputs ==
  {[f \in {DurationFields[i]} |-> d] : i \in 1..Len(DurationFields),
                                       d \in Durations}

InitDuration ==
  /\ InitResponse
  /\ input \in DurationInputs
  /\ result = NoCall

SpecDuration == InitDuration /\ [][NextCall]_vars

TheField == CHOOSE f \in DOMAIN input : TRUE

TheToken ==
  Canonical[CHOOSE i \in 1..Len(Canonical) : Canonical[i].field = TheField].token

\* C20: a duration d >= 0, integer or not, passes validation and is
\* serialized as token=<nearest integer, a half going up>, the same string
\* as the serialization of that integer; a duration d < 0 is rejected, also
\* when it would round to 0.
C20_RoundedAtSerialization ==
  result # NoCall =>
    LET d == input[TheField] IN
    IF d >= 0
    THEN /\ result.err = NoError
         /\ result.op = "serialize" =>
              /\ result.value = TheToken \o "=" \o ToString(Nearest(d))
              /\ serializeDirectives(
                   [f \in {TheField} |-> Nearest(d) * Scale]).value
                 = result.value
    ELSE /\ result.err.code = ErrorCodes.INVALID_VALUE
         /\ result.err.message = TheField \o " cannot be negative"

\* C20 witness: 2.5 seconds were serialized as 3.
C20_Witness ==
  /\ result # NoCall /\ result.op = "serialize"
  /\ input = [maxAge |-> 2 * Scale + Scale \div 2]
  /\ result.value = "max-age=3"

(***************************************************************************)
(* extractVaryFields called on the field-name lists of a Directive Set     *)
(* (SpecVary)                                                              *)
(***************************************************************************)
MaxVaryNames == 2

VaryNames ==
  {cookie, <<"C","o","o","k","i","e">>, <<"a","u","t","h">>,
   <<"a","u","t","h","o","r","i","z","a","t","i","o","n">>, xId}

VaryLists == UNION {[1..n -> VaryNames] : n \in 0..MaxVaryNames}

VaryScoped == {Absent, Present(Flag(TRUE))} \cup {Present(Names(l)) : l \in VaryLists}

VaryInputs ==
  {DirectivesOf(c) : c \in [private : VaryScoped, noCache : VaryScoped]}

InitVary ==
  /\ InitResponse
  /\ input \in VaryInputs
  /\ result = NoCall

CallVary ==
  /\ result = NoCall
  /\ result' = [op |-> "vary", value |-> extractVaryFields(input)]
  /\ UNCHANGED <<input, closure, lastIndex, response>>

NextVary == CallVary

SpecVary == InitVary /\ [][NextVary]_vars

\* The names of the private list, then those of the noCache list.
ScopedNames(d) ==
  (IF "private" \in DOMAIN d /\ "names" \in DOMAIN d["private"]
   THEN d["private"].names ELSE <<>>)
  \o (IF "noCache" \in DOMAIN d /\ "names" \in DOMAIN d["noCache"]
      THEN d["noCache"].names ELSE <<>>)

\* C21: extractVaryFields returns the names of the private list followed
\* by those of the noCache list, each normalized, in first-occurrence
\* order and with no name twice, also when names differ only by letter
\* case or by the auth / authorization alias.
C21_VaryFieldsOrderedSet ==
  result # NoCall =>
    LET names == ScopedNames(input)
        normalized == [i \in 1..Len(names) |-> NormalizeField(names[i])]
    IN /\ result.value = Merged(<<>>, normalized)
       /\ NoRepeat(result.value)

(***************************************************************************)
(* Properties of the Vary header left alone (Spec)                         *)
(***************************************************************************)
VaryUnchanged ==
  /\ HasHeader(headers, "Vary") <=> HasHeader(entry.headers, "Vary")
  /\ HasHeader(headers, "Vary") => headers["Vary"] = entry.headers["Vary"]

NoScopedNames == PrimaryIsSet /\ ScopedNames(FirstSource.r.value.d) = <<>>

\* C22: the hook leaves the Vary header as it found it when autoVary is
\* off, when the resolved Directive Set has no non-empty private / noCache
\* list, when the outcome is explicit-disable, and when the hook skips the
\* response; the CDN Directive Set's field names never reach Vary.
C22_VaryLeftAlone ==
  (Finalized
   /\ \/ ~autoVary
      \/ ~Eligible
      \/ FirstSource.r = Returned(False)
      \/ NoScopedNames) => VaryUnchanged

\* C22 witness: autoVary is on, the primary Directive Set has no field
\* names, the CDN Directive Set has one and its header is written, and the
\* reply's Vary header is the application's.
C22_Witness ==
  /\ Eligible /\ autoVary /\ NoScopedNames
  /\ CdnConfigured /\ ScopedNames(cdn.directives.d) # <<>>
  /\ HasHeader(headers, CdnName)
  /\ HasHeader(entry.headers, "Vary")
  /\ headers["Vary"] = entry.headers["Vary"]

(***************************************************************************)
(* Properties of the registration (Spec)                                   *)
(***************************************************************************)
\* Nothing is installed: no decorator was ever called on the reply, and a
\* reply that was sent has the headers its handler gave it.
NothingInstalled ==
  /\ plugin = "disabled"
  /\ slot = Null /\ lastOp = NoOp /\ log = <<>> /\ error = NoError
  /\ pc = "sent" => headers = entry.headers

UsedLastOverride ==
  Eligible =>
    /\ Outcome(Returned(Set(Requested(lastOp))))
    /\ SelectSeq(log, IsUsing) = <<"Using reply-level directives">>

\* In the handler error holds what the last decorator call threw, and
\* lastOp the last call that returned.
LastCallFailed == Decorated /\ error # NoError

\* C24: after a reply.cacheControl or reply.cachePreset call that threw,
\* the slot holds the override of the last call that returned (none if
\* there was none) and the reply's headers are those the handler set; the
\* hook that runs later uses that override.
C24_FailedOverrideKeepsEarlier ==
  /\ LastCallFailed =>
       /\ error.code = ErrorCodes.INVALID_PRESET
       /\ slot = IF lastOp = NoOp THEN Null ELSE Set(Requested(lastOp))
       /\ \A n \in DOMAIN headers :
            /\ n \in {"Cache-Control", "Vary"}
            /\ headers[n] \in (IF n = "Vary" THEN AppVary ELSE AppCacheControl)
  /\ (Finalized /\ lastOp # NoOp) => UsedLastOverride

\* C24 witness: reply.cachePreset('private') was followed by a call with
\* an unknown preset name, and the slot still holds the private preset.
C24_Witness ==
  /\ LastCallFailed
  /\ lastOp # NoOp /\ lastOp.op = "cachePreset"
  /\ slot = Set(CACHE_PRESETS["private"])
  /\ headers = NoHeaders

====
